---- MODULE Spec2Model ----
(***************************************************************************)
(* Model of sockeye/scoring.py: BatchScorer.hybrid_forward (a pure         *)
(* function of one shard) and Scorer.score / Scorer.score_batch (the       *)
(* streaming loop over batches).                                           *)
(*                                                                         *)
(* Numbers.  Logits are whole multiples of ln 2, so every probability of   *)
(* the softmax is a rational number, held as a reduced fraction <<n, d>>.  *)
(* A score is the real number ln(n/d) / div + rat / Scale, held exactly as *)
(* the record [arg |-> <<n, d>>, div |-> div, rat |-> rat]; Scale is a     *)
(* common multiple of every length the brevity penalty divides by.         *)
(***************************************************************************)
EXTENDS Integers, Sequences, FiniteSets, TLC

VARIABLES
    \* BatchScorer object and its last call
    bs_pc,          \* "new" | "ready" | "scored"
    scorer,         \* fields set by BatchScorer.__init__
    fwd_in,         \* arguments of the last hybrid_forward call
    fwd_out,        \* its return value
    \* Scorer object
    dtype,          \* self.model.dtype
    num_devices,    \* len(self.context)
    model_lenratio, \* whether the model's outputs carry a length ratio
    \* Scorer.score / score_batch locals
    pc,             \* "iter" | "shards" | "sentences" | "done" | "failed" | "zerodiv"
    batch, shards, shard_i, batch_scores, scores,
    batch_no, sentence_no, sentno, total_time, batch_time,
    \* effects observable from outside
    handled,        \* calls of output_handler.handle for the batch in hand, in order
    handled_earlier,\* number of calls of output_handler.handle for earlier batches
    log,            \* logger.info lines, in order
    calls,          \* invocations of self.model, in order
    \* history
    consumed,       \* row counts of the batches pulled from score_iter
    divisors        \* divisors of the divisions score() has performed

vars == <<bs_pc, scorer, fwd_in, fwd_out, dtype, num_devices, model_lenratio,
          pc, batch, shards, shard_i, batch_scores, scores,
          batch_no, sentence_no, sentno, total_time, batch_time,
          handled, handled_earlier, log, calls, consumed, divisors>>

bsVars == <<bs_pc, scorer, fwd_in, fwd_out>>

streamVars == <<dtype, num_devices, model_lenratio,
                pc, batch, shards, shard_i, batch_scores, scores,
                batch_no, sentence_no, sentno, total_time, batch_time,
                handled, handled_earlier, log, calls, consumed, divisors>>

----------------------------------------------------------------------------
\* Bounds

MaxLen == 2         \* time steps per sentence
VocabSize == 3      \* vocabulary ids 0 .. VocabSize-1
MaxRows == 2        \* rows per batch
MaxBatches == 2     \* batches per stream
MaxDevices == 2     \* compute devices

----------------------------------------------------------------------------
\* Values

PAD_ID == 0

None == <<>>
Some(v) == <<v>>

SCORING_TYPE_DEFAULT == "logprob"
SCORING_TYPE_NEGLOGPROB == "neglogprob"
DTYPE_FP16 == "float16"
DTYPE_FP32 == "float32"

RECURSIVE Factorial(_)
Factorial(n) == IF n <= 1 THEN 1 ELSE n * Factorial(n - 1)

\* Every length the penalties divide by is in 1 .. MaxLen.
Scale == Factorial(MaxLen)

Min(a, b) == IF a <= b THEN a ELSE b

\* Exact quotient a / b for b # 0 dividing a.
Quot(a, b) == IF b > 0 THEN a \div b ELSE (0 - a) \div (0 - b)

RECURSIVE Pow2(_)
Pow2(n) == IF n <= 0 THEN 1 ELSE 2 * Pow2(n - 1)

RECURSIVE Gcd(_, _)
Gcd(a, b) == IF b = 0 THEN a ELSE Gcd(b, a % b)

\* the fraction n / d in lowest terms
Frac(n, d) == <<n \div Gcd(n, d), d \div Gcd(n, d)>>

FracMul(p, q) == Frac(p[1] * q[1], p[2] * q[2])

RECURSIVE Power(_, _)
Power(b, k) == IF k = 0 THEN 1 ELSE b * Power(b, k - 1)

\* n is the j-th power of a whole number
IsPower(n, j) == \E r \in 1 .. n : Power(r, j) = n
Root(n, j) == CHOOSE r \in 1 .. n : Power(r, j) = n

\* ln(n/d) / div with the largest root taken out of n/d, so that one real
\* number has one representation
RECURSIVE Canon(_, _, _)
Canon(arg, div, j) ==
    IF arg = <<1, 1>> THEN [arg |-> arg, div |-> 1]
    ELSE IF j <= 1 THEN [arg |-> arg, div |-> div]
    ELSE IF div % j = 0 /\ IsPower(arg[1], j) /\ IsPower(arg[2], j)
         THEN [arg |-> <<Root(arg[1], j), Root(arg[2], j)>>, div |-> div \div j]
    ELSE Canon(arg, div, j - 1)

\* the real number 0
Zero == [arg |-> <<1, 1>>, div |-> 1, rat |-> 0]

\* x + y for x, y with div = 1
Plus(x, y) == [arg |-> FracMul(x.arg, y.arg), div |-> 1, rat |-> x.rat + y.rat]

\* x / k for a whole number k >= 1 and x with rat = 0
Over(x, k) ==
    LET c == Canon(x.arg, x.div * k, x.div * k)
    IN  [arg |-> c.arg, div |-> c.div, rat |-> 0]

\* x - q / Scale
Minus(x, q) == [x EXCEPT !.rat = @ - q]

RECURSIVE SumSeq(_)
SumSeq(s) == IF s = <<>> THEN 0 ELSE Head(s) + SumSeq(Tail(s))

RECURSIVE Flatten(_)
Flatten(ss) == IF ss = <<>> THEN <<>> ELSE Head(ss) \o Flatten(Tail(ss))

Ids == 0 .. (VocabSize - 1)

----------------------------------------------------------------------------
\* Penalties (sockeye.inference)

\* LengthPenalty with beta = 0: alpha = 0 gives 1, alpha = 1 gives the length.
LengthPenalty(alpha, lengths) ==
    [i \in DOMAIN lengths |-> IF alpha = 0 THEN 1 ELSE lengths[i]]

\* BrevityPenalty: weight * min(0, 1 - reference / hypothesis), in units of
\* 1 / Scale.
BrevityPenalty(weight, hyp_lengths, reference_lengths) ==
    [i \in DOMAIN hyp_lengths |->
        IF weight = 0 THEN 0
        ELSE weight * Min(0, Scale - Quot(Scale * reference_lengths[i], hyp_lengths[i]))]

----------------------------------------------------------------------------
\* Array operations used by hybrid_forward

\* logits / temperature, elementwise
DivideLogits(logits, t) ==
    [i \in DOMAIN logits |-> [s \in DOMAIN logits[i] |->
        [v \in DOMAIN logits[i][s] |-> Quot(logits[i][s][v], t)]]]

RowMin(row) == CHOOSE m \in {row[v] : v \in DOMAIN row} : \A v \in DOMAIN row : m <= row[v]

RECURSIVE SumPow2(_, _, _)
SumPow2(row, base, todo) ==
    IF todo = {} THEN 0
    ELSE LET v == CHOOSE x \in todo : TRUE
         IN  Pow2(row[v] - base) + SumPow2(row, base, todo \ {v})

\* F.softmax(logits, axis=-1): exp(logit) / sum of exp(logit), as fractions
Softmax(logits) ==
    [i \in DOMAIN logits |-> [s \in DOMAIN logits[i] |->
        LET base == RowMin(logits[i][s])
            total == SumPow2(logits[i][s], base, DOMAIN logits[i][s])
        IN  [v \in DOMAIN logits[i][s] |-> Frac(Pow2(logits[i][s][v] - base), total)]]]

\* F.pick(target_dists, labels, axis=-1)
Pick(dists, labels) ==
    [i \in DOMAIN dists |-> [s \in DOMAIN dists[i] |-> dists[i][s][labels[i][s]]]]

\* F.log: the natural logarithm of a probability
Log(probs) ==
    [i \in DOMAIN probs |-> [s \in DOMAIN probs[i] |->
        [arg |-> probs[i][s], div |-> 1, rat |-> 0]]]

\* token_scores * -1
Negate(token_scores) ==
    [i \in DOMAIN token_scores |-> [s \in DOMAIN token_scores[i] |->
        [arg |-> <<token_scores[i][s].arg[2], token_scores[i][s].arg[1]>>,
         div |-> token_scores[i][s].div,
         rat |-> 0 - token_scores[i][s].rat]]]

MaskPadUnmasked(label, token_score) == token_score

\* F.where(labels != 0, token_scores, zeros), one element
MaskPad(label, token_score) == IF label # PAD_ID THEN token_score ELSE Zero

Where(labels, token_scores) ==
    [i \in DOMAIN token_scores |-> [s \in DOMAIN token_scores[i] |->
        MaskPad(labels[i][s], token_scores[i][s])]]

RECURSIVE SumScores(_)
SumScores(s) == IF s = <<>> THEN Zero ELSE Plus(Head(s), SumScores(Tail(s)))

\* F.sum(x, axis=1)
SumAxis1(x) == [i \in DOMAIN x |-> SumScores(x[i])]

EffectiveLengthRatio(constant_length_ratio, length_ratio) ==
    IF constant_length_ratio # None
    THEN [i \in DOMAIN length_ratio |-> length_ratio[i] + constant_length_ratio[1] * 1]
    ELSE length_ratio

\* BatchScorer.hybrid_forward
HybridForward(self, logits, labels, length_ratio, source_length, target_length) ==
    LET logits1 == IF self.softmax_temperature # None
                   THEN DivideLogits(logits, self.softmax_temperature[1])
                   ELSE logits
        target_dists == Softmax(logits1)
        probs == Pick(target_dists, labels)
        token_scores0 == Log(probs)
        token_scores == IF self.score_type = SCORING_TYPE_NEGLOGPROB
                        THEN Negate(token_scores0)
                        ELSE token_scores0
        hyp == [i \in DOMAIN target_length |-> target_length[i] - 1]
        sums == SumAxis1(Where(labels, token_scores))
        lp == LengthPenalty(self.length_penalty, hyp)
        scores0 == [i \in DOMAIN sums |-> Over(sums[i], lp[i])]
        ratio == EffectiveLengthRatio(self.constant_length_ratio, length_ratio)
        ref == [i \in DOMAIN ratio |-> ratio[i] * source_length[i]]
        bp == BrevityPenalty(self.brevity_penalty, hyp, ref)
    IN  [i \in DOMAIN scores0 |-> Minus(scores0[i], bp[i])]

----------------------------------------------------------------------------
\* BatchScorer: construction and one call

ScoreTypes == {SCORING_TYPE_DEFAULT, SCORING_TYPE_NEGLOGPROB, "bogus"}
Temperatures == {None, Some(2), Some(0 - 2)}
ConstantRatios == {None, Some(1)}

Configs ==
    [score_type : ScoreTypes,
     softmax_temperature : Temperatures,
     length_penalty : {0, 1},
     brevity_penalty : {0, 1},
     constant_length_ratio : ConstantRatios]

ValidConfig(c) ==
    /\ c.score_type \in {SCORING_TYPE_DEFAULT, SCORING_TYPE_NEGLOGPROB}
    /\ c.softmax_temperature # None => c.softmax_temperature[1] > 0

NoScorer ==
    [score_type |-> "", softmax_temperature |-> None, length_penalty |-> 0,
     brevity_penalty |-> 0, constant_length_ratio |-> None]

\* one row of logits over the vocabulary, peaked at id k
PeakAt(k) == [v \in Ids |-> IF v = k THEN 2 ELSE 0]
LogitRows == {PeakAt(0), PeakAt(1)}

Lengths == 1 .. MaxLen
LabelSeqs == UNION {[1 .. n -> Ids] : n \in Lengths}
LogitSeqs(n) == [1 .. n -> LogitRows]
Ratios == 0 .. 1
SourceLengths == 1 .. 2
TargetLengths == 2 .. (MaxLen + 1)

NoCall == [logits |-> <<>>, labels |-> <<>>, length_ratio |-> <<>>,
           source_length |-> <<>>, target_length |-> <<>>]

\* BatchScorer.__init__
Construct ==
    /\ bs_pc = "new"
    /\ \E c \in Configs : scorer' = c
    /\ bs_pc' = "ready"
    /\ UNCHANGED <<fwd_in, fwd_out>>
    /\ UNCHANGED streamVars

\* one call of hybrid_forward on a shard of one sentence
Forward ==
    /\ bs_pc = "ready"
    /\ \E labels \in LabelSeqs, lr \in Ratios, sl \in SourceLengths, tl \in TargetLengths :
         \E logits \in LogitSeqs(Len(labels)) :
           /\ fwd_in' = [logits |-> <<logits>>, labels |-> <<labels>>, length_ratio |-> <<lr>>,
                         source_length |-> <<sl>>, target_length |-> <<tl>>]
           /\ fwd_out' = HybridForward(scorer, <<logits>>, <<labels>>, <<lr>>, <<sl>>, <<tl>>)
    /\ bs_pc' = "scored"
    /\ UNCHANGED scorer
    /\ UNCHANGED streamVars

----------------------------------------------------------------------------
\* Scorer: data

\* A sentence pair of a batch: the first source id (source[0][0]), the first
\* target id (target[0]), the lengths, the labels, and what the model returns
\* for the pair (logits, predicted length ratio).  Three kinds of pair: a valid
\* one, one with an empty target and one with an empty source.
StreamRows ==
    {r \in [source0 : {PAD_ID, 1}, target0 : {PAD_ID, 1},
            source_length : {2}, target_length : {2},
            labels : [1 .. 1 -> {1, 2}], logits : {<<PeakAt(1)>>}, length_ratio : {1}] :
        /\ r.source0 # PAD_ID \/ r.target0 # PAD_ID
        /\ (r.labels = <<2>>) = (r.target0 = PAD_ID)}

Batches == UNION {[1 .. n -> StreamRows] : n \in 0 .. MaxRows}

\* the BatchScorer a Scorer is run with: negative log-probability, length
\* penalty alpha 1, brevity penalty weight 1, no temperature, no constant ratio
StreamConfigs ==
    {c \in Configs : /\ c.score_type = SCORING_TYPE_NEGLOGPROB
                     /\ c.softmax_temperature = None
                     /\ c.constant_length_ratio = None
                     /\ c.length_penalty = 1
                     /\ c.brevity_penalty = 1}

\* Contiguous partitions of a sequence into k parts, each non-empty when k > 1.
RECURSIVE Parts(_, _)
Parts(s, k) ==
    IF k <= 1 THEN {<<s>>}
    ELSE UNION {{<<SubSeq(s, 1, c)>> \o rest : rest \in Parts(SubSeq(s, c + 1, Len(s)), k - 1)} :
                c \in 1 .. (Len(s) - (k - 1))}

\* batch.split_and_load(ctx=self.context) followed by batch.shards()
SplitAndLoad(rows, ndev) == Parts(rows, Min(ndev, IF Len(rows) = 0 THEN 1 ELSE Len(rows)))

\* the inputs of a shard: four arrays, in the data's precision
ShardInputs ==
    [kind |-> "tuple",
     items |-> <<[name |-> "source", dtype |-> DTYPE_FP32],
                 [name |-> "source_length", dtype |-> DTYPE_FP32],
                 [name |-> "target", dtype |-> DTYPE_FP32],
                 [name |-> "target_length", dtype |-> DTYPE_FP32]>>]

\* (i.astype(C.DTYPE_FP16, copy=False) for i in inputs): a generator
CastInputs(inputs) ==
    [kind |-> "generator",
     items |-> [k \in DOMAIN inputs.items |-> [inputs.items[k] EXCEPT !.dtype = DTYPE_FP16]]]

\* what is left of an iterable once it has been iterated to the end
AfterIteration(inputs) ==
    IF inputs.kind = "generator" THEN [inputs EXCEPT !.items = <<>>] ELSE inputs

\* the positional arguments of self.model(*inputs), after line 119 has
\* unpacked inputs
ModelArgs(model_dtype) ==
    LET inputs == IF model_dtype = DTYPE_FP16 THEN CastInputs(ShardInputs) ELSE ShardInputs
    IN  AfterIteration(inputs).items

\* the model takes (source, source_length, target, target_length)
ModelAccepts(args) == Len(args) = 4

\* lines 121-124 for one shard whose model call returned
ShardScores(self, has_lenratio, rows) ==
    LET logits == [i \in DOMAIN rows |-> rows[i].logits]
        label == [i \in DOMAIN rows |-> rows[i].labels]
        source_length == [i \in DOMAIN rows |-> rows[i].source_length]
        target_length == [i \in DOMAIN rows |-> rows[i].target_length]
        length_ratio == IF has_lenratio
                        THEN [i \in DOMAIN rows |-> rows[i].length_ratio]
                        ELSE [i \in DOMAIN rows |-> 0]
    IN  HybridForward(self, logits, label, length_ratio, source_length, target_length)

AppendScoresFront(collected, shard_scores) == <<shard_scores>> \o collected

\* batch_scores.append(scores)
AppendScores(collected, shard_scores) == Append(collected, shard_scores)

\* mx.nd.concat(*batch_scores, dim=0)
Concat(collected) == Flatten(collected)

NegInf == [inf |-> TRUE, val |-> Zero]
AsScalar(x) == [inf |-> FALSE, val |-> x]

ReportedScoreBothPad(row, score) ==
    IF row.source0 = PAD_ID /\ row.target0 = PAD_ID THEN NegInf ELSE AsScalar(score)

\* lines 152-155
ReportedScore(row, score) ==
    IF row.source0 = PAD_ID \/ row.target0 = PAD_ID THEN NegInf ELSE AsScalar(score)

SentenceIdInBatch(running_no, row_no) == row_no

\* the sentence id given to TranslatorInput and TranslatorOutput
SentenceId(running_no, row_no) == running_no

\* line 162
SummaryCondition(lines, batches) == lines # 0

\* math.ceil(a / b) for a >= 0, b > 0
Ceil(a, b) == (a + b - 1) \div b

\* what time.time() - batch_tic can be, in ticks: the clock has a finite
\* resolution and is not monotonic
Elapsed == {0 - 1, 0, 1}

SUMMARY == "Processed %d lines in %d batches. Total time: %.4f, sec/sent: %.4f, sent/sec: %.4f"
ZERO_LINES == "Processed 0 lines."

----------------------------------------------------------------------------
\* Scorer.score

\* the for loop of line 135 receives the next batch; score_batch begins
NextBatch ==
    /\ pc = "iter"
    /\ Len(consumed) < MaxBatches
    /\ \E b \in Batches :
         /\ batch' = b
         /\ consumed' = Append(consumed, Len(b))
         /\ \E sh \in SplitAndLoad(b, num_devices) : shards' = sh
    /\ batch_no' = batch_no + 1
    /\ shard_i' = 1
    /\ batch_scores' = <<>>
    /\ pc' = "shards"
    /\ UNCHANGED <<dtype, num_devices, model_lenratio, scores, sentence_no, sentno,
                   total_time, batch_time, handled, handled_earlier, log, calls, divisors>>
    /\ UNCHANGED bsVars

\* one iteration of the loop of lines 116-125 whose model call returns
ScoreShard ==
    /\ pc = "shards"
    /\ shard_i <= Len(shards)
    /\ ModelAccepts(ModelArgs(dtype))
    /\ calls' = Append(calls, [args |-> ModelArgs(dtype), ok |-> TRUE])
    /\ batch_scores' = AppendScores(batch_scores, ShardScores(scorer, model_lenratio, shards[shard_i]))
    /\ shard_i' = shard_i + 1
    /\ UNCHANGED <<dtype, num_devices, model_lenratio, pc, batch, shards, scores,
                   batch_no, sentence_no, sentno, total_time, batch_time,
                   handled, handled_earlier, log, consumed, divisors>>
    /\ UNCHANGED bsVars

ModelFailsSwallowed ==
    /\ pc = "shards"
    /\ shard_i <= Len(shards)
    /\ calls' = Append(calls, [args |-> ModelArgs(dtype), ok |-> FALSE])
    /\ batch_scores' = AppendScores(batch_scores, [i \in DOMAIN shards[shard_i] |-> Zero])
    /\ shard_i' = shard_i + 1
    /\ UNCHANGED <<dtype, num_devices, model_lenratio, pc, batch, shards, scores,
                   batch_no, sentence_no, sentno, total_time, batch_time,
                   handled, handled_earlier, log, consumed, divisors>>
    /\ UNCHANGED bsVars

\* the model call of line 120 raises: nothing in score_batch or score catches
\* it, so score ends with the exception
ModelFails ==
    /\ pc = "shards"
    /\ shard_i <= Len(shards)
    /\ calls' = Append(calls, [args |-> ModelArgs(dtype), ok |-> FALSE])
    /\ pc' = "failed"
    /\ UNCHANGED <<dtype, num_devices, model_lenratio, batch, shards, shard_i, batch_scores,
                   scores, batch_no, sentence_no, sentno, total_time, batch_time,
                   handled, handled_earlier, log, consumed, divisors>>
    /\ UNCHANGED bsVars

\* lines 128-129 and 138-139: score_batch returns, the clock is read
ConcatScores ==
    /\ pc = "shards"
    /\ shard_i > Len(shards)
    /\ scores' = Concat(batch_scores)
    /\ \E dt \in Elapsed :
         /\ batch_time' = dt
         /\ total_time' = total_time + dt
    /\ sentno' = 0
    /\ pc' = "sentences"
    \* the locals of score_batch end with the call
    /\ shards' = <<>>
    /\ shard_i' = 1
    /\ batch_scores' = <<>>
    /\ UNCHANGED <<dtype, num_devices, model_lenratio, batch,
                   batch_no, sentence_no, handled, handled_earlier, log, calls, consumed, divisors>>
    /\ UNCHANGED bsVars

\* one iteration of the loop of lines 141-160
HandleSentence ==
    /\ pc = "sentences"
    /\ sentno < Min(Len(batch), Len(scores))
    /\ sentno' = sentno + 1
    /\ sentence_no' = sentence_no + 1
    /\ handled' = Append(handled,
           [input_id |-> SentenceId(sentence_no', sentno'),
            output_id |-> SentenceId(sentence_no', sentno'),
            score |-> ReportedScore(batch[sentno'], scores[sentno']),
            batch_time |-> batch_time,
            pos |-> <<batch_no, sentno'>>])
    /\ UNCHANGED <<dtype, num_devices, model_lenratio, pc, batch, shards, shard_i,
                   batch_scores, scores, batch_no, total_time, batch_time,
                   handled_earlier, log, calls, consumed, divisors>>
    /\ UNCHANGED bsVars

\* the zip of line 141 is exhausted: back to the for loop of line 135
EndBatch ==
    /\ pc = "sentences"
    /\ sentno >= Min(Len(batch), Len(scores))
    /\ pc' = "iter"
    \* batch, scores, sentno and batch_time are not read again before the
    \* next iteration rebinds them
    /\ batch' = <<>>
    /\ scores' = <<>>
    /\ sentno' = 0
    /\ batch_time' = 0
    \* the sink keeps what it received; only the count is carried on
    /\ handled_earlier' = handled_earlier + Len(handled)
    /\ handled' = <<>>
    /\ UNCHANGED <<dtype, num_devices, model_lenratio, shards, shard_i, batch_scores,
                   batch_no, sentence_no, total_time,
                   log, calls, consumed, divisors>>
    /\ UNCHANGED bsVars

\* score_iter is exhausted: lines 162-167.  The arguments of the summary are
\* evaluated before logger.info is called; sentence_no / total_time raises
\* ZeroDivisionError when total_time is 0, and score ends with the exception.
Finish ==
    /\ pc = "iter"
    /\ IF SummaryCondition(sentence_no, batch_no)
       THEN /\ divisors' = divisors \o <<batch_no, sentence_no, total_time>>
            /\ IF batch_no = 0 \/ sentence_no = 0 \/ total_time = 0
               THEN /\ log' = log
                    /\ pc' = "zerodiv"
               ELSE /\ log' = Append(log, [msg |-> SUMMARY, lines |-> sentence_no,
                                           batches |-> Ceil(sentence_no, batch_no),
                                           total_time |-> total_time])
                    /\ pc' = "done"
       ELSE /\ divisors' = divisors
            /\ log' = Append(log, [msg |-> ZERO_LINES, lines |-> 0, batches |-> 0,
                                   total_time |-> 0])
            /\ pc' = "done"
    /\ UNCHANGED <<dtype, num_devices, model_lenratio, batch, shards, shard_i, batch_scores,
                   scores, batch_no, sentence_no, sentno, total_time, batch_time,
                   handled, handled_earlier, calls, consumed>>
    /\ UNCHANGED bsVars

----------------------------------------------------------------------------
\* Specifications

StreamIdle ==
    /\ pc = "iter"
    /\ batch = <<>> /\ shards = <<>> /\ shard_i = 1 /\ batch_scores = <<>> /\ scores = <<>>
    /\ batch_no = 0 /\ sentence_no = 0 /\ sentno = 0 /\ total_time = 0 /\ batch_time = 0
    /\ handled = <<>> /\ handled_earlier = 0 /\ log = <<>> /\ calls = <<>> /\ consumed = <<>> /\ divisors = <<>>

\* A Scorer has been constructed around a BatchScorer; score() is entered.
Init ==
    /\ bs_pc = "ready"
    /\ scorer \in StreamConfigs
    /\ fwd_in = NoCall
    /\ fwd_out = <<>>
    /\ dtype \in {DTYPE_FP32, DTYPE_FP16}
    /\ num_devices \in 1 .. MaxDevices
    /\ model_lenratio \in BOOLEAN
    /\ StreamIdle

Next ==
    \/ NextBatch
    \/ ScoreShard
    \/ ModelFails
    \/ ConcatScores
    \/ HandleSentence
    \/ EndBatch
    \/ Finish

Spec == Init /\ [][Next]_vars

\* No BatchScorer exists yet.
InitBS ==
    /\ bs_pc = "new"
    /\ scorer = NoScorer
    /\ fwd_in = NoCall
    /\ fwd_out = <<>>
    /\ dtype = DTYPE_FP32
    /\ num_devices = 1
    /\ model_lenratio = FALSE
    /\ StreamIdle

NextBS ==
    \/ Construct
    \/ Forward

SpecBS == InitBS /\ [][NextBS]_vars

----------------------------------------------------------------------------
\* Properties of BatchScorer (checked under SpecBS)

\* C1: with constant_length_ratio configured, the scores of a shard are the
\* same whatever length ratio the model predicted.
C1_PredictedRatioIgnored ==
    (bs_pc = "scored" /\ scorer.constant_length_ratio # None) =>
        \A lr \in Ratios :
            HybridForward(scorer, fwd_in.logits, fwd_in.labels, <<lr>>,
                          fwd_in.source_length, fwd_in.target_length) = fwd_out

\* C6: a BatchScorer with a score_type outside the two scoring types, or with
\* a temperature that is not positive, is never constructed and never scores.
C6_InvalidConfigRejected ==
    bs_pc \in {"ready", "scored"} => ValidConfig(scorer)

\* the logits the softmax is applied to
NormalisedLogits ==
    IF scorer.softmax_temperature # None
    THEN DivideLogits(fwd_in.logits, scorer.softmax_temperature[1])
    ELSE fwd_in.logits

\* the probability exp(row[label]) / sum of exp(row[v]) of a label
GoldProb(row, label) ==
    Frac(Pow2(row[label] - RowMin(row)), SumPow2(row, RowMin(row), DOMAIN row))

\* product over the steps 1..t with a non-PAD label of the label's probability
RECURSIVE GoldProbProduct(_, _, _)
GoldProbProduct(rows, labels, t) ==
    IF t = 0 THEN <<1, 1>>
    ELSE IF labels[t] = PAD_ID THEN GoldProbProduct(rows, labels, t - 1)
    ELSE FracMul(GoldProbProduct(rows, labels, t - 1), GoldProb(rows[t], labels[t]))

\* sum over those steps of the label's log-probability: the logarithm of the product
GoldLogProbSum(rows, labels, t) ==
    [arg |-> GoldProbProduct(rows, labels, t), div |-> 1, rat |-> 0]

NeutralPenalties ==
    /\ scorer.score_type = SCORING_TYPE_DEFAULT
    /\ scorer.length_penalty = 0
    /\ scorer.brevity_penalty = 0

\* C8: with length penalty 1, brevity penalty 0 and score type log-probability,
\* a sentence's score is the sum of the gold labels' log-probabilities over
\* exactly the steps whose label is not PAD.
C8_SumOverNonPadSteps ==
    (bs_pc = "scored" /\ NeutralPenalties) =>
        \A i \in DOMAIN fwd_out :
            fwd_out[i] = GoldLogProbSum(NormalisedLogits[i], fwd_in.labels[i],
                                        Len(fwd_in.labels[i]))

\* a scored sentence with a PAD step and a non-PAD step, whose logits differ
C8_Witness ==
    /\ bs_pc = "scored"
    /\ NeutralPenalties
    /\ Len(fwd_in.labels[1]) = 2
    /\ fwd_in.labels[1][1] # PAD_ID
    /\ fwd_in.labels[1][2] = PAD_ID
    /\ fwd_in.logits[1][1] # fwd_in.logits[1][2]
    /\ fwd_out[1] # Zero

----------------------------------------------------------------------------
\* Properties of Scorer (checked under Spec)

\* C2: an emitted score is negative infinity if the sentence's first source id
\* or first target id is PAD, and otherwise the value score_batch returned for
\* the sentence's row.
C2_SentinelIffPad ==
    pc = "sentences" =>
        \A j \in 1 .. sentno :
            LET rec == handled[j]
                row == batch[j]
            IN  /\ (row.source0 = PAD_ID \/ row.target0 = PAD_ID) => rec.score = NegInf
                /\ (row.source0 # PAD_ID /\ row.target0 # PAD_ID) =>
                       (rec.score.inf = FALSE /\ rec.score.val = scores[j])

\* both kinds of sentence emitted from one batch
C2_Witness ==
    /\ pc = "sentences"
    /\ sentno = 2
    /\ batch[1].source0 # PAD_ID /\ batch[1].target0 = PAD_ID /\ scores[1] # Zero
    /\ batch[2].source0 # PAD_ID /\ batch[2].target0 # PAD_ID
    /\ handled[Len(handled)].score.inf = FALSE

\* the positions <<batch, row>> of a stream's sentences, in stream order
RECURSIVE Positions(_, _)
Positions(sizes, b) ==
    IF b > Len(sizes) THEN <<>>
    ELSE [r \in 1 .. sizes[b] |-> <<b, r>>] \o Positions(sizes, b + 1)

\* C3: handle is called once per sentence, in stream order, and the k-th call
\* carries sentence id k in both records.
C3_IdsCountUp ==
    /\ LET expected == Positions(consumed, 1)
       IN  \A k \in DOMAIN handled :
              /\ handled[k].input_id = handled_earlier + k
              /\ handled[k].output_id = handled_earlier + k
              /\ handled[k].pos = expected[handled_earlier + k]
    /\ pc \in {"iter", "done", "zerodiv"} =>
          (handled = <<>> /\ handled_earlier = SumSeq(consumed))
    /\ pc = "sentences" =>
          (Len(handled) = sentno /\ handled_earlier = SumSeq(consumed) - Len(batch))

\* the second batch's second sentence has been handled after a first batch of two
C3_Witness ==
    /\ handled_earlier = 2
    /\ Len(handled) = 2
    /\ handled[2].pos = <<2, 2>>
    /\ handled[2].input_id = 4

\* C4: score_batch returns one score per row, and however the rows were split
\* into shards the i-th score is the one a single shard would give row i.
C4_ShardingKeepsOrder ==
    pc = "sentences" =>
        /\ Len(scores) = Len(batch)
        /\ scores = ShardScores(scorer, model_lenratio, batch)

\* two shards whose rows score differently
C4_Witness ==
    /\ pc = "sentences"
    /\ num_devices = 2
    /\ Len(calls) = 2
    /\ Len(scores) = 2
    /\ scores[1] # scores[2]

\* C5: once the stream is exhausted the sentence total is the sum of the
\* batches' row counts; a total of zero logs "Processed 0 lines." with no
\* division, a positive total logs the summary, and one line is logged in all.
C5_TotalsAndZeroNotice ==
    pc \in {"done", "zerodiv"} =>
        /\ sentence_no = SumSeq(consumed)
        /\ Len(log) = 1
        /\ sentence_no = 0 => (log[1].msg = ZERO_LINES /\ divisors = <<>>)
        /\ sentence_no > 0 => (log[1].msg = SUMMARY /\ log[1].lines = SumSeq(consumed))

\* C7: once a model call fails the model is not called again, the sink holds
\* the records of the earlier batches only, and nothing is logged.
C7_FailureAborts ==
    /\ \A k \in DOMAIN calls : k < Len(calls) => calls[k].ok
    /\ pc = "failed" =>
          /\ calls[Len(calls)].ok = FALSE
          /\ handled = <<>>
          /\ handled_earlier = SumSeq(consumed) - Len(batch)
          /\ log = <<>>
    /\ pc = "done" => \A k \in DOMAIN calls : calls[k].ok
    /\ \A k \in DOMAIN handled : handled[k].pos[1] = batch_no

\* the second shard of the second batch fails after a first batch was emitted
C7_Witness ==
    /\ pc = "failed"
    /\ batch_no = 2
    /\ shard_i = 2
    /\ handled_earlier > 0
    /\ Len(calls) >= 3

\* C9: in fp16 mode every model call receives the four inputs, in order, cast
\* to fp16.
C9_Fp16CallHasFourInputs ==
    dtype = DTYPE_FP16 =>
        \A k \in DOMAIN calls : calls[k].args = CastInputs(ShardInputs).items

\* C10: the batch count of the summary line is the number of batches consumed.
C10_SummaryReportsBatchCount ==
    (pc = "done" /\ sentence_no > 0) => log[1].batches = batch_no

====
